---- MODULE Spec2Model ----
(***************************************************************************)
(* amqp-tools (src/src/main.rs): the three commands read, peek and shovel  *)
(* as state machines over a broker's get / ack / reject / publish          *)
(* protocol, with the connection-name resolution and the output sink.      *)
(***************************************************************************)
EXTENDS Integers, Sequences, FiniteSets, TLC

\* ------------------------------------------------------------------ bounds

\* Longest initial content of the queue a command works on.
MaxMsgs == 2
\* Largest small --limit tried (limits 0..MaxLimit, u32::MAX, and no limit).
MaxLimit == 2
\* Cap on the basic_get calls of one run (shovel onto its own source queue
\* never runs out of messages).
MaxGets == MaxMsgs + 2

\* ------------------------------------------------------------------ values

\* u32: a 32-bit unsigned integer, kept as its two 16-bit halves.
U32(n) == [hi |-> n \div 65536, lo |-> n % 65536]
\* u32::MAX = 4294967295
U32_MAX == [hi |-> 65535, lo |-> 65535]
\* a >= b on u32
U32Geq(a, b) == a.hi > b.hi \/ (a.hi = b.hi /\ a.lo >= b.lo)
\* a + 1 on u32, wrapping at the width
U32Inc(a) ==
    IF a.lo < 65535 THEN [a EXCEPT !.lo = @ + 1]
    ELSE IF a.hi < 65535 THEN [hi |-> a.hi + 1, lo |-> 0]
    ELSE [hi |-> 0, lo |-> 0]
\* Display for u32 ("{}"): the decimal digits when the value fits the low
\* half, and the two halves spelled out above that (one text per value).
U32Display(a) ==
    IF a.hi = 0 THEN ToString(a.lo)
    ELSE ToString(a.hi) \o "*65536+" \o ToString(a.lo)

\* Option<T>: None is the empty set, Some(v) the singleton.
None == {}
Some(v) == {v}
Option(S) == {None} \cup {Some(v) : v \in S}
unwrap(o) == CHOOSE v \in o : TRUE
unwrap_or(o, d) == IF o = None THEN d ELSE unwrap(o)

Data == {"m1", "m2"}
Props == {"p1", "p2"}
\* What the broker holds for one message: payload and properties bundle.
Msgs == [data : Data, properties : Props]
NoMsg == [data |-> "-", properties |-> "-"]

QueueNames == {"q1", "q2"}
ProfileNames == {"a", "b", "zz"}

\* struct Config, and the two profiles of the configuration file.
ProfileA ==
    [username |-> "svc", password |-> "pwA", port |-> 5671, host |-> "hostA",
     secure |-> TRUE, vhost |-> "/app"]
ProfileB ==
    [username |-> "ops", password |-> "pwB", port |-> 5672, host |-> "hostB",
     secure |-> FALSE, vhost |-> "/"]
ConfigMap == [n \in {"a", "b"} |-> IF n = "a" THEN ProfileA ELSE ProfileB]
EmptyMap == [n \in {} |-> ProfileA]

\* impl Into<AMQPUri> for &Config
ConfigIntoUri(c) ==
    [scheme |-> IF c.secure THEN "amqps" ELSE "amqp",
     username |-> c.username, password |-> c.password,
     host |-> c.host, port |-> c.port, vhost |-> c.vhost, query |-> ""]

\* AMQPUri::default(): the loopback broker.
DefaultUri ==
    [scheme |-> "amqp", username |-> "guest", password |-> "guest",
     host |-> "localhost", port |-> 5672, vhost |-> "/", query |-> ""]
NoUri ==
    [scheme |-> "-", username |-> "-", password |-> "-",
     host |-> "-", port |-> 0, vhost |-> "-", query |-> "-"]

\* The broker (and virtual host) a URI reaches.
BrokerOf(uri) == <<uri.host, uri.port, uri.vhost>>
Brokers ==
    {BrokerOf(DefaultUri), BrokerOf(ConfigIntoUri(ProfileA)),
     BrokerOf(ConfigIntoUri(ProfileB))}

\* The connections and channels main() opens, by the names of its locals.
Conns == {"connection", "source", "destination"}
Chans == {"channel", "source_channel", "destination_channel"}
ConnOf(ch) ==
    CASE ch = "channel" -> "connection"
      [] ch = "source_channel" -> "source"
      [] ch = "destination_channel" -> "destination"

\* -o paths: "out" and "out/" name the same node of the file system.
Paths == [name : {"out"}, slash : BOOLEAN]

\* ------------------------------------------------------------------- state

VARIABLES
    args,         \* the parsed command line (Cli), fixed for the run
    configFile,   \* <user-config-dir>/amqp-tools/config.toml
    configLoads,  \* how many times Config::from_file has read the file
    fs,           \* the file-system node the -o path names
    stdout,       \* bytes written to standard output, in order
    stderr,       \* diagnostics written to standard error, in order
    queues,       \* per broker and queue name: the ready messages, head first
    unacked,      \* per channel: deliveries the broker awaits an ack/reject for
    nextTag,      \* per channel: the delivery tag of the next delivery
    connection,   \* per Connection local: the URI it is connected to, if open
    channel,      \* per Channel local: whether it is open
    pc,           \* the position of main()
    message,      \* the Option<BasicGetMessage> the command holds
    read_count,   \* read's counter (u32)
    log,          \* every broker or sink operation issued, in order
    result,       \* how the process ended, once pc = "exit"
    queues0       \* the queues as they were when the command started

vars ==
    <<args, configFile, configLoads, fs, stdout, stderr, queues, unacked,
      nextTag, connection, channel, pc, message, read_count, log, result,
      queues0>>

\* ----------------------------------------------------------- configuration

\* Config::ensure_file_exists: the file (and its directory) is created empty
\* when missing, and is otherwise left as it is.
ensure_file_exists(file) ==
    IF file.exists THEN file
    ELSE [exists |-> TRUE, valid |-> TRUE, profiles |-> EmptyMap]

NoError == [kind |-> "-", name |-> "-"]

\* get_uri_from_config(name) on the configuration file `file`:
\* Config::from_file parses the file, then the map is looked up.
get_uri_from_config(name, file) ==
    LET f == ensure_file_exists(file) IN
    IF ~f.valid
        THEN [ok |-> FALSE, uri |-> NoUri,
              err |-> [kind |-> "ConfigParseError", name |-> "-"]]
    ELSE IF name \notin DOMAIN f.profiles
        THEN [ok |-> FALSE, uri |-> NoUri,
              err |-> [kind |-> "UnknownProfile", name |-> name]]
    ELSE [ok |-> TRUE, uri |-> ConfigIntoUri(f.profiles[name]), err |-> NoError]

\* The URI create_connection_by_name(name) connects to:
\* name.map(get_uri_from_config).transpose()?.unwrap_or_default()
resolve_uri(name, file) ==
    IF name = None
        THEN [ok |-> TRUE, uri |-> DefaultUri, err |-> NoError]
        ELSE get_uri_from_config(unwrap(name), file)

\* ------------------------------------------------------------------ broker

EmptyQueues == [b \in Brokers |-> [q \in QueueNames |-> <<>>]]

\* A channel's broker.
BrokerOfChan(ch) == BrokerOf(unwrap(connection[ConnOf(ch)]))

\* The broker puts message m back on queue q (requeue): at the head, or on
\* brokers that do not keep the position, at the tail.
Requeue(qs, b, q, m, pos) ==
    [qs EXCEPT ![b][q] = IF pos = "head" THEN <<m>> \o @ ELSE Append(@, m)]

\* All deliveries ds (oldest first) go back to their queues.
RECURSIVE RequeueAll(_, _, _, _)
RequeueAll(qs, b, ds, pos) ==
    IF ds = <<>> THEN qs
    ELSE IF pos = "head"
        THEN LET d == ds[Len(ds)] IN
             RequeueAll(Requeue(qs, b, d.queue, d.msg, pos), b,
                        SubSeq(ds, 1, Len(ds) - 1), pos)
        ELSE LET d == Head(ds) IN
             RequeueAll(Requeue(qs, b, d.queue, d.msg, pos), b, Tail(ds), pos)

\* Channel teardown at process exit: the broker requeues what each open
\* channel left unacknowledged.
TeardownChan(qs, un, ch, pos) ==
    IF connection[ConnOf(ch)] = None THEN qs
    ELSE RequeueAll(qs, BrokerOfChan(ch), un[ch], pos)

Teardown(qs, un, pos) ==
    TeardownChan(
        TeardownChan(TeardownChan(qs, un, "channel", pos), un,
                     "source_channel", pos),
        un, "destination_channel", pos)

\* The deliveries s without the one(s) tagged `tag`.
RECURSIVE Without(_, _)
Without(s, tag) ==
    IF s = <<>> THEN <<>>
    ELSE IF Head(s).delivery_tag = tag THEN Without(Tail(s), tag)
    ELSE <<Head(s)>> \o Without(Tail(s), tag)

\* One entry of the log of operations.
Event(op, on, queue, tag, m, flag, uri, ok) ==
    [op |-> op, on |-> on, queue |-> queue, tag |-> tag, msg |-> m,
     flag |-> flag, uri |-> uri, ok |-> ok]

\* basic_get(queue) on channel ch: the head of the queue, if any, becomes an
\* unacknowledged delivery of the channel with the channel's next tag.
basic_get(ch, q) ==
    LET b == BrokerOfChan(ch)
        ready == queues[b][q]
    IN  IF ready = <<>>
        THEN [message |-> None, queues |-> queues, unacked |-> unacked,
              nextTag |-> nextTag]
        ELSE [message |->
                  Some([data |-> Head(ready).data,
                        properties |-> Head(ready).properties,
                        delivery_tag |-> nextTag[ch]]),
              queues |-> [queues EXCEPT ![b][q] = Tail(@)],
              unacked |->
                  [unacked EXCEPT ![ch] =
                      Append(@, [delivery_tag |-> nextTag[ch], queue |-> q,
                                 msg |-> Head(ready)])],
              nextTag |-> [nextTag EXCEPT ![ch] = @ + 1]]

\* basic_ack(delivery_tag, multiple = false): the broker discards the delivery.
basic_ack(un, ch, tag) == [un EXCEPT ![ch] = Without(@, tag)]

\* basic_reject(delivery_tag, requeue): the delivery leaves the channel and,
\* with requeue, goes back to its queue.
basic_reject(qs, un, ch, tag, requeue, pos) ==
    LET ds == SelectSeq(un[ch], LAMBDA d : d.delivery_tag = tag) IN
    [queues |-> IF requeue THEN RequeueAll(qs, BrokerOfChan(ch), ds, pos) ELSE qs,
     unacked |-> [un EXCEPT ![ch] = Without(@, tag)]]

\* basic_publish(exchange = "", routing_key, payload, properties) on channel
\* ch: the default exchange routes to the queue named by the routing key.
basic_publish(qs, ch, routing_key, payload, properties) ==
    [qs EXCEPT ![BrokerOfChan(ch)][routing_key] =
        Append(@, [data |-> payload, properties |-> properties])]

\* ------------------------------------------------------------- output sink

Stdout == [target |-> "stdout", name |-> "-", writable |-> TRUE]

\* A file name that counts the messages from one.
MessageFileNameOneBased(offset) == "message_" \o U32Display(U32Inc(offset))

\* format!("message_{offset}")
MessageFileName(offset) == "message_" \o U32Display(offset)

\* open_output_file(path, offset) on the file system node: the File it
\* returns and the node afterwards.
open_output_file(path, offset, node) ==
    IF node.kind = "dir" \/ path.slash
    THEN \* create_dir_all(path)?, then File::create(path.join(..))
         IF node.kind = "file"
         THEN [ok |-> FALSE, file |-> Stdout, fs |-> node]
         ELSE [ok |-> TRUE,
               file |-> [target |-> "entry", name |-> MessageFileName(offset),
                         writable |-> TRUE],
               fs |-> [node EXCEPT !.kind = "dir",
                                   !.entries = (MessageFileName(offset) :> <<>>) @@ @]]
    ELSE IF node.kind = "file"
    THEN \* File::open(path): read-only
         [ok |-> TRUE,
          file |-> [target |-> "node", name |-> "-", writable |-> FALSE],
          fs |-> node]
    ELSE \* File::create(path)
         [ok |-> TRUE,
          file |-> [target |-> "node", name |-> "-", writable |-> TRUE],
          fs |-> [node EXCEPT !.kind = "file", !.content = <<>>]]

\* Write::write_all / write on an open sink: the bytes are appended.
write_bytes(file, bytes, io) ==
    CASE file.target = "stdout" -> [io EXCEPT !.stdout = @ \o bytes]
      [] file.target = "node" -> [io EXCEPT !.fs.content = @ \o bytes]
      [] file.target = "entry" -> [io EXCEPT !.fs.entries[file.name] = @ \o bytes]

\* --------------------------------------------------------------- the start

NoEntries == [n \in {} |-> <<>>]
FsStates ==
    {[kind |-> "absent", content |-> <<>>, entries |-> NoEntries],
     [kind |-> "file", content |-> <<"old">>, entries |-> NoEntries],
     [kind |-> "dir", content |-> <<>>, entries |-> NoEntries],
     [kind |-> "dir", content |-> <<>>,
      entries |-> (MessageFileName(U32(0)) :> <<"old">>)]}

ConfigFiles ==
    {[exists |-> FALSE, valid |-> TRUE, profiles |-> EmptyMap],
     [exists |-> TRUE, valid |-> FALSE, profiles |-> EmptyMap],
     [exists |-> TRUE, valid |-> TRUE, profiles |-> ConfigMap]}

\* The --limit values tried: the small ones and the largest the CLI accepts.
Limits == {U32(n) : n \in 0..MaxLimit} \cup {U32_MAX}

\* The command lines tried (struct ReadArgs, PeekArgs, ShovelArgs).
ReadArgs ==
    [command : {"read"}, connection : Option({"a", "zz"}),
     queue_name : {"q1"}, limit : Option(Limits), output : Option(Paths),
     source_connection : {None}, destination_connection : {None},
     source_queue_name : {"q1"}, destination_queue_name : {"q1"}]
PeekArgs ==
    [command : {"peek"}, connection : Option({"a", "zz"}),
     queue_name : {"q1"}, limit : {None}, output : {None},
     source_connection : {None}, destination_connection : {None},
     source_queue_name : {"q1"}, destination_queue_name : {"q1"}]
ShovelArgs ==
    [command : {"shovel"}, connection : {None},
     queue_name : {"q1"}, limit : {None}, output : {None},
     source_connection : Option(ProfileNames),
     destination_connection : Option(ProfileNames),
     source_queue_name : {"q1"}, destination_queue_name : QueueNames]

\* The queue a command reads, and the profile option that names its broker.
SourceQueue(a) ==
    IF a.command = "shovel" THEN a.source_queue_name ELSE a.queue_name
SourceOption(a) ==
    IF a.command = "shovel" THEN a.source_connection ELSE a.connection

\* All sequences over S of length at most n.
SeqsUpTo(S, n) == UNION {[1..k -> S] : k \in 0..n}

Init ==
    /\ args \in ReadArgs \cup PeekArgs \cup ShovelArgs
    /\ configFile \in ConfigFiles
    /\ configLoads = 0
    /\ fs \in IF args.output = None THEN {CHOOSE f \in FsStates : f.kind = "absent"}
              ELSE FsStates
    /\ stdout = <<>>
    /\ stderr = <<>>
    /\ \E content \in SeqsUpTo(Msgs, MaxMsgs) :
         LET r == resolve_uri(SourceOption(args), configFile)
             b == IF r.ok THEN BrokerOf(r.uri) ELSE BrokerOf(DefaultUri)
         IN  queues = [EmptyQueues EXCEPT ![b][SourceQueue(args)] = content]
    /\ unacked = [ch \in Chans |-> <<>>]
    /\ nextTag = [ch \in Chans |-> 1]
    /\ connection = [c \in Conns |-> None]
    /\ channel = [ch \in Chans |-> FALSE]
    /\ pc = args.command \o "_connect"
    /\ message = None
    /\ read_count = U32(0)
    /\ log = <<>>
    /\ result = [state |-> "running", err |-> NoError,
                 left |-> [ch \in Chans |-> <<>>]]
    /\ queues0 = queues

\* ------------------------------------------------------------ process exit

RequeuePos == {"head", "tail"}

\* main() returns (Ok or Err) or the process is killed: the connections are
\* dropped and the broker requeues what the channels left unacknowledged.
Exit(st, err, qs, un) ==
    /\ \E pos \in RequeuePos : queues' = Teardown(qs, un, pos)
    /\ unacked' = [ch \in Chans |-> <<>>]
    /\ connection' = [c \in Conns |-> None]
    /\ channel' = [ch \in Chans |-> FALSE]
    /\ pc' = "exit"
    /\ result' = [state |-> st, err |-> err, left |-> un]
    /\ UNCHANGED queues0

Error(kind) == [kind |-> kind, name |-> "-"]

\* The payload and properties of a delivered message.
Body(m) == [data |-> m.data, properties |-> m.properties]

\* How many basic_get calls the run has issued.
NumGets == Len(SelectSeq(log, LAMBDA e : e.op = "basic_get"))

\* ------------------------------------------------------------- connections

\* create_connection_by_name(name), assigned to the local `conn`.
create_connection_by_name(conn, name, next) ==
    LET r == resolve_uri(name, configFile) IN
    /\ configFile' = IF name = None THEN configFile
                     ELSE ensure_file_exists(configFile)
    /\ configLoads' = IF name = None THEN configLoads ELSE configLoads + 1
    /\ IF ~r.ok
       THEN /\ Exit("error", r.err, queues, unacked)
            /\ log' = log
       ELSE \E net \in BOOLEAN :
              /\ log' = Append(log, Event("connect", conn, "-", 0, NoMsg,
                                          FALSE, r.uri, net))
              /\ IF net
                 THEN /\ connection' = [connection EXCEPT ![conn] = Some(r.uri)]
                      /\ pc' = next
                      /\ UNCHANGED <<queues, unacked, channel, result, queues0>>
                 ELSE Exit("error", Error("ConnectionError"), queues, unacked)
    /\ UNCHANGED <<args, fs, stdout, stderr, nextTag, message, read_count>>

\* connection.create_channel(), assigned to the local `ch`.
create_channel(ch, next) ==
    /\ \E ok \in BOOLEAN :
         /\ log' = Append(log, Event("create_channel", ch, "-", 0, NoMsg,
                                     FALSE, unwrap(connection[ConnOf(ch)]), ok))
         /\ IF ok
            THEN /\ channel' = [channel EXCEPT ![ch] = TRUE]
                 /\ pc' = next
                 /\ UNCHANGED <<queues, unacked, connection, result, queues0>>
            ELSE Exit("error", Error("BrokerError"), queues, unacked)
    /\ UNCHANGED <<args, configFile, configLoads, fs, stdout, stderr, nextTag,
                   message, read_count>>

\* ------------------------------------------------------------------- read

ReadConnect ==
    /\ pc = "read_connect"
    /\ create_connection_by_name("connection", args.connection,
                                 "read_create_channel")

ReadCreateChannel ==
    /\ pc = "read_create_channel"
    /\ create_channel("channel", "read_basic_get")

\* eprintln!("Read {read_count} messages from {}", args.queue_name)
Summary(count) == [count |-> U32Display(count), queue |-> args.queue_name]

\* The head of the while-let loop: basic_get on the queue.
ReadBasicGet ==
    /\ pc = "read_basic_get"
    /\ NumGets < MaxGets
    /\ \E ok \in BOOLEAN :
         IF ~ok
         THEN /\ log' = Append(log, Event("basic_get", "channel", args.queue_name,
                                          0, NoMsg, FALSE, NoUri, FALSE))
              /\ Exit("error", Error("BrokerError"), queues, unacked)
              /\ UNCHANGED <<nextTag, message, stderr>>
         ELSE LET g == basic_get("channel", args.queue_name) IN
              /\ nextTag' = g.nextTag
              /\ message' = g.message
              /\ IF g.message = None
                 THEN /\ log' = Append(log, Event("basic_get", "channel",
                                   args.queue_name, 0, NoMsg, FALSE, NoUri, TRUE))
                      /\ stderr' = Append(stderr, Summary(read_count))
                      /\ Exit("ok", NoError, g.queues, g.unacked)
                 ELSE /\ log' = Append(log, Event("basic_get", "channel",
                                   args.queue_name, unwrap(g.message).delivery_tag,
                                   Body(unwrap(g.message)), FALSE, NoUri, TRUE))
                      /\ queues' = g.queues
                      /\ unacked' = g.unacked
                      /\ pc' = "read_output"
                      /\ UNCHANGED <<stderr, connection, channel, result, queues0>>
    /\ UNCHANGED <<args, configFile, configLoads, fs, stdout, read_count>>

\* An output step whose errors are dropped: whatever the sink did, the loop
\* goes on to the ack.
ReadOutputUnchecked ==
    /\ pc = "read_output"
    /\ log' = Append(log, Event("write", "stdout", "-", read_count,
                                Body(unwrap(message)), FALSE, NoUri, FALSE))
    /\ read_count' = U32Inc(read_count)
    /\ pc' = "read_basic_ack"
    /\ UNCHANGED <<args, configFile, configLoads, fs, stdout, stderr, queues,
                   unacked, nextTag, connection, channel, message, result,
                   queues0>>

\* The sink is resolved for the ordinal read_count, the counter is bumped,
\* the payload and a newline are written and the sink is flushed.
ReadOutput ==
    /\ pc = "read_output"
    /\ \E fault \in {"none", "open", "write_all", "write", "flush"} :
         LET m == unwrap(message)
             opened == IF args.output = None
                       THEN [ok |-> TRUE, file |-> Stdout, fs |-> fs]
                       ELSE open_output_file(unwrap(args.output), read_count, fs)
             io0 == [fs |-> opened.fs, stdout |-> stdout]
             io1 == write_bytes(opened.file, <<m.data>>, io0)
             io2 == write_bytes(opened.file, <<"\n">>, io1)
             wrote(ok) == Append(log, Event("write", opened.file.target,
                                 opened.file.name, read_count, Body(m), FALSE,
                                 NoUri, ok))
             fail(io, count) ==
                 /\ fs' = io.fs
                 /\ stdout' = io.stdout
                 /\ read_count' = count
                 /\ log' = wrote(FALSE)
                 /\ Exit("error", Error("OutputError"), queues, unacked)
         IN  /\ fault = "open" => args.output # None
             /\ IF fault = "open" THEN fail([io0 EXCEPT !.fs = fs], read_count)
                ELSE IF ~opened.ok THEN fail(io0, read_count)
                ELSE IF fault = "write_all" \/ ~opened.file.writable
                    THEN fail(io0, U32Inc(read_count))
                ELSE IF fault = "write"
                    THEN fail(io1, U32Inc(read_count))
                ELSE IF fault = "flush"
                    THEN fail(io2, U32Inc(read_count))
                ELSE /\ fs' = io2.fs
                     /\ stdout' = io2.stdout
                     /\ read_count' = U32Inc(read_count)
                     /\ log' = wrote(TRUE)
                     /\ pc' = "read_basic_ack"
                     /\ UNCHANGED <<queues, unacked, connection, channel, result, queues0>>
    /\ UNCHANGED <<args, configFile, configLoads, stderr, nextTag, message>>

\* An ack that covers every delivery up to the tag.
ReadAckOptionsMultiple == [multiple |-> TRUE]
\* BasicAckOptions { multiple: false }
ReadAckOptions == [multiple |-> FALSE]

\* basic_ack of the message just written, then the limit test.
ReadBasicAck ==
    /\ pc = "read_basic_ack"
    /\ \E outcome \in {"ok", "err", "err_applied"} :
         LET m == unwrap(message)
             un == IF outcome = "err" THEN unacked
                   ELSE basic_ack(unacked, "channel", m.delivery_tag)
         IN  /\ log' = Append(log, Event("basic_ack", "channel", args.queue_name,
                              m.delivery_tag, Body(m), ReadAckOptions.multiple,
                              NoUri,
                              outcome = "ok"))
             /\ IF outcome # "ok"
                THEN /\ Exit("error", Error("BrokerError"), queues, un)
                     /\ UNCHANGED <<stderr, message>>
                ELSE IF U32Geq(read_count, unwrap_or(args.limit, U32_MAX))
                THEN /\ stderr' = Append(stderr, Summary(read_count))
                     /\ Exit("ok", NoError, queues, un)
                     /\ UNCHANGED message
                ELSE /\ unacked' = un
                     /\ message' = None
                     /\ pc' = "read_basic_get"
                     /\ UNCHANGED <<stderr, queues, connection, channel, result, queues0>>
    /\ UNCHANGED <<args, configFile, configLoads, fs, stdout, nextTag, read_count>>

\* ------------------------------------------------------------------- peek

PeekConnect ==
    /\ pc = "peek_connect"
    /\ create_connection_by_name("connection", args.connection,
                                 "peek_create_channel")

PeekCreateChannel ==
    /\ pc = "peek_create_channel"
    /\ create_channel("channel", "peek_basic_get")

\* The one basic_get of peek; an empty queue is reported on stdout.
PeekBasicGet ==
    /\ pc = "peek_basic_get"
    /\ \E ok \in BOOLEAN :
         IF ~ok
         THEN /\ log' = Append(log, Event("basic_get", "channel", args.queue_name,
                                          0, NoMsg, FALSE, NoUri, FALSE))
              /\ Exit("error", Error("BrokerError"), queues, unacked)
              /\ UNCHANGED <<nextTag, message, stdout>>
         ELSE LET g == basic_get("channel", args.queue_name) IN
              /\ nextTag' = g.nextTag
              /\ message' = g.message
              /\ IF g.message = None
                 THEN /\ log' = Append(log, Event("basic_get", "channel",
                                   args.queue_name, 0, NoMsg, FALSE, NoUri, TRUE))
                      /\ stdout' = stdout \o <<"the queue is empty", "\n">>
                      /\ Exit("ok", NoError, g.queues, g.unacked)
                 ELSE /\ log' = Append(log, Event("basic_get", "channel",
                                   args.queue_name, unwrap(g.message).delivery_tag,
                                   Body(unwrap(g.message)), FALSE, NoUri, TRUE))
                      /\ queues' = g.queues
                      /\ unacked' = g.unacked
                      /\ pc' = "peek_write"
                      /\ UNCHANGED <<stdout, connection, channel, result, queues0>>
    /\ UNCHANGED <<args, configFile, configLoads, fs, stderr, read_count>>

\* std::io::stdout().write_all(&message.data)?
PeekWrite ==
    /\ pc = "peek_write"
    /\ \E ok \in BOOLEAN :
         /\ log' = Append(log, Event("write", "stdout", "-", U32(0),
                                     Body(unwrap(message)), FALSE, NoUri, ok))
         /\ IF ok
            THEN /\ stdout' = Append(stdout, unwrap(message).data)
                 /\ pc' = "peek_basic_reject"
                 /\ UNCHANGED <<queues, unacked, connection, channel, result, queues0>>
            ELSE /\ Exit("error", Error("OutputError"), queues, unacked)
                 /\ UNCHANGED stdout
    /\ UNCHANGED <<args, configFile, configLoads, fs, stderr, nextTag, message,
                   read_count>>

\* A peek that returns Ok without rejecting the delivery it holds.
PeekReturnsWithoutReject ==
    /\ pc = "peek_basic_reject"
    /\ Exit("ok", NoError, queues, unacked)
    /\ UNCHANGED <<args, configFile, configLoads, fs, stdout, stderr, nextTag,
                   message, read_count, log>>

\* A reject that does not ask for the message back.
PeekRequeueDropped == FALSE

\* BasicRejectOptions { requeue: true }
PeekRequeue == TRUE

\* basic_reject(delivery_tag, requeue = true), then main returns.
PeekBasicReject ==
    /\ pc = "peek_basic_reject"
    /\ \E outcome \in {"ok", "err", "err_applied"}, pos \in RequeuePos :
         LET m == unwrap(message)
             r == IF outcome = "err"
                  THEN [queues |-> queues, unacked |-> unacked]
                  ELSE basic_reject(queues, unacked, "channel", m.delivery_tag,
                                    PeekRequeue, pos)
         IN  /\ log' = Append(log, Event("basic_reject", "channel",
                              args.queue_name, m.delivery_tag, Body(m),
                              PeekRequeue, NoUri, outcome = "ok"))
             /\ IF outcome = "ok"
                THEN Exit("ok", NoError, r.queues, r.unacked)
                ELSE Exit("error", Error("BrokerError"), r.queues, r.unacked)
    /\ UNCHANGED <<args, configFile, configLoads, fs, stdout, stderr, nextTag,
                   message, read_count>>

\* ----------------------------------------------------------------- shovel

\* The profile option each connection of shovel is resolved from.
ShovelSourceOption == args.source_connection
ShovelDestinationOption == args.source_connection

ShovelConnectSource ==
    /\ pc = "shovel_connect"
    /\ create_connection_by_name("source", ShovelSourceOption,
                                 "shovel_create_channel")

ShovelCreateSourceChannel ==
    /\ pc = "shovel_create_channel"
    /\ create_channel("source_channel", "shovel_connect_destination")

ShovelConnectDestination ==
    /\ pc = "shovel_connect_destination"
    /\ create_connection_by_name("destination", ShovelDestinationOption,
                                 "shovel_create_destination_channel")

ShovelCreateDestinationChannel ==
    /\ pc = "shovel_create_destination_channel"
    /\ create_channel("destination_channel", "shovel_basic_get")

\* The head of the while-let loop: basic_get on the source queue.
ShovelBasicGet ==
    /\ pc = "shovel_basic_get"
    /\ NumGets < MaxGets
    /\ \E ok \in BOOLEAN :
         IF ~ok
         THEN /\ log' = Append(log, Event("basic_get", "source_channel",
                               args.source_queue_name, 0, NoMsg, FALSE, NoUri,
                               FALSE))
              /\ Exit("error", Error("BrokerError"), queues, unacked)
              /\ UNCHANGED <<nextTag, message>>
         ELSE LET g == basic_get("source_channel", args.source_queue_name) IN
              /\ nextTag' = g.nextTag
              /\ message' = g.message
              /\ IF g.message = None
                 THEN /\ log' = Append(log, Event("basic_get", "source_channel",
                                   args.source_queue_name, 0, NoMsg, FALSE, NoUri,
                                   TRUE))
                      /\ Exit("ok", NoError, g.queues, g.unacked)
                 ELSE /\ log' = Append(log, Event("basic_get", "source_channel",
                                   args.source_queue_name,
                                   unwrap(g.message).delivery_tag,
                                   Body(unwrap(g.message)), FALSE, NoUri, TRUE))
                      /\ queues' = g.queues
                      /\ unacked' = g.unacked
                      /\ pc' = "shovel_basic_publish"
                      /\ UNCHANGED <<connection, channel, result, queues0>>
    /\ UNCHANGED <<args, configFile, configLoads, fs, stdout, stderr, read_count>>

\* A publish that sends a fixed payload / default properties instead of
\* the message's own.
PublishedPayloadFixed(m) == "m1"
PublishedPropertiesDefault(m) == "p1"

\* What shovel republishes of the message it holds.
PublishedPayload(m) == m.data
PublishedProperties(m) == m.properties

\* A publish whose error is dropped: the loop goes on to the ack whatever
\* the broker answered.
ShovelBasicPublishUnchecked ==
    /\ pc = "shovel_basic_publish"
    /\ \E outcome \in {"ok", "err"} :
         LET m == unwrap(message)
             sent == [data |-> m.data, properties |-> m.properties]
         IN  /\ log' = Append(log, Event("basic_publish", "destination_channel",
                              args.destination_queue_name, m.delivery_tag, sent,
                              FALSE, NoUri, outcome = "ok"))
             /\ queues' = IF outcome = "err" THEN queues
                          ELSE basic_publish(queues, "destination_channel",
                                             args.destination_queue_name,
                                             sent.data, sent.properties)
             /\ pc' = "shovel_basic_ack"
    /\ UNCHANGED <<args, configFile, configLoads, fs, stdout, stderr, nextTag,
                   message, read_count, unacked, connection, channel, result,
                   queues0>>

\* basic_publish("", destination_queue_name, .., &msg.data, msg.properties)
\* on the destination channel.
ShovelBasicPublish ==
    /\ pc = "shovel_basic_publish"
    /\ \E outcome \in {"ok", "err", "err_applied"} :
         LET m == unwrap(message)
             sent == [data |-> PublishedPayload(m),
                      properties |-> PublishedProperties(m)]
             qs == IF outcome = "err" THEN queues
                   ELSE basic_publish(queues, "destination_channel",
                                      args.destination_queue_name,
                                      sent.data, sent.properties)
         IN  /\ log' = Append(log, Event("basic_publish", "destination_channel",
                              args.destination_queue_name, m.delivery_tag, sent,
                              FALSE, NoUri, outcome = "ok"))
             /\ IF outcome = "ok"
                THEN /\ queues' = qs
                     /\ pc' = "shovel_basic_ack"
                     /\ UNCHANGED <<unacked, connection, channel, result, queues0>>
                ELSE Exit("error", Error("BrokerError"), qs, unacked)
    /\ UNCHANGED <<args, configFile, configLoads, fs, stdout, stderr, nextTag,
                   message, read_count>>

\* An ack whose error is ignored: the loop goes on whatever the outcome.
ShovelBasicAckIgnoringError ==
    /\ pc = "shovel_basic_ack"
    /\ \E outcome \in {"ok", "err"} :
         LET m == unwrap(message)
             un == IF outcome = "err" THEN unacked
                   ELSE basic_ack(unacked, "source_channel", m.delivery_tag)
         IN  /\ log' = Append(log, Event("basic_ack", "source_channel",
                              args.source_queue_name, m.delivery_tag, Body(m),
                              FALSE, NoUri, outcome = "ok"))
             /\ unacked' = un
             /\ message' = None
             /\ pc' = "shovel_basic_get"
             /\ UNCHANGED <<queues, connection, channel, result, queues0>>
    /\ UNCHANGED <<args, configFile, configLoads, fs, stdout, stderr, nextTag,
                   read_count>>

\* basic_ack(msg.delivery_tag, BasicAckOptions::default()) on the source
\* channel, then back to the head of the loop.
ShovelBasicAck ==
    /\ pc = "shovel_basic_ack"
    /\ \E outcome \in {"ok", "err", "err_applied"} :
         LET m == unwrap(message)
             un == IF outcome = "err" THEN unacked
                   ELSE basic_ack(unacked, "source_channel", m.delivery_tag)
         IN  /\ log' = Append(log, Event("basic_ack", "source_channel",
                              args.source_queue_name, m.delivery_tag, Body(m),
                              FALSE, NoUri, outcome = "ok"))
             /\ IF outcome = "ok"
                THEN /\ unacked' = un
                     /\ message' = None
                     /\ pc' = "shovel_basic_get"
                     /\ UNCHANGED <<queues, connection, channel, result, queues0>>
                ELSE /\ Exit("error", Error("BrokerError"), queues, un)
                     /\ UNCHANGED message
    /\ UNCHANGED <<args, configFile, configLoads, fs, stdout, stderr, nextTag,
                   read_count>>

\* ------------------------------------------------------------- interruption

\* SIGINT (or any kill) ends the process wherever it is.
Interrupt ==
    /\ pc # "exit"
    /\ Exit("killed", NoError, queues, unacked)
    /\ UNCHANGED <<args, configFile, configLoads, fs, stdout, stderr, nextTag,
                   message, read_count, log>>

Next ==
    \/ ReadConnect
    \/ ReadCreateChannel
    \/ ReadBasicGet
    \/ ReadOutput
    \/ ReadBasicAck
    \/ PeekConnect
    \/ PeekCreateChannel
    \/ PeekBasicGet
    \/ PeekWrite
    \/ PeekBasicReject
    \/ ShovelConnectSource
    \/ ShovelCreateSourceChannel
    \/ ShovelConnectDestination
    \/ ShovelCreateDestinationChannel
    \/ ShovelBasicGet
    \/ ShovelBasicPublish
    \/ ShovelBasicAck
    \/ Interrupt

Spec == Init /\ [][Next]_vars

\* ------------------------------------------- read, late in a very long run

\* How far below u32::MAX the counter of the long run stands at the start.
MaxAhead == 2

\* `read <queue>` without --limit and without --output, observed at the head
\* of its loop after u32::MAX - d messages were read and acked: the
\* connection and the channel are open, nothing is unacknowledged, and the
\* queue still holds what is left of it.  The log, the output and the
\* delivery tags are counted from this point on.
InitNearMax ==
    /\ args \in {a \in ReadArgs :
                    a.connection = None /\ a.limit = None /\ a.output = None}
    /\ configFile \in ConfigFiles
    /\ configLoads = 0
    /\ fs = CHOOSE f \in FsStates : f.kind = "absent"
    /\ stdout = <<>>
    /\ stderr = <<>>
    /\ \E content \in SeqsUpTo(Msgs, MaxMsgs) :
         queues = [EmptyQueues EXCEPT
                      ![BrokerOf(DefaultUri)][args.queue_name] = content]
    /\ unacked = [ch \in Chans |-> <<>>]
    /\ nextTag = [ch \in Chans |-> 1]
    /\ connection = [c \in Conns |->
                        IF c = "connection" THEN Some(DefaultUri) ELSE None]
    /\ channel = [ch \in Chans |-> ch = "channel"]
    /\ pc = "read_basic_get"
    /\ message = None
    /\ \E d \in 1..MaxAhead : read_count = [hi |-> 65535, lo |-> 65535 - d]
    /\ log = <<>>
    /\ result = [state |-> "running", err |-> NoError,
                 left |-> [ch \in Chans |-> <<>>]]
    /\ queues0 = queues

NextRead ==
    \/ ReadBasicGet
    \/ ReadOutput
    \/ ReadBasicAck
    \/ Interrupt

SpecNearMax == InitNearMax /\ [][NextRead]_vars

\* ------------------------------------------------- reading the run's record

\* How often m occurs in the sequence s.
Count(s, m) == Cardinality({i \in DOMAIN s : s[i] = m})

Min(a, b) == IF a <= b THEN a ELSE b

Returned == pc = "exit" /\ result.state \in {"ok", "error"}
ReturnedOk == pc = "exit" /\ result.state = "ok"

\* The log entries of one operation, by index.
Issued(op) == {i \in DOMAIN log : log[i].op = op}
\* The basic_get calls that delivered a message.
Deliveries == {i \in Issued("basic_get") : log[i].ok /\ log[i].tag > 0}
\* The basic_ack / basic_reject calls on the channel and tag of delivery i.
Disposals(i) ==
    {j \in Issued("basic_ack") \cup Issued("basic_reject") :
        log[j].on = log[i].on /\ log[j].tag = log[i].tag}
AckedOk == {j \in Issued("basic_ack") : log[j].ok}
WrittenOk == {j \in Issued("write") : log[j].ok}

\* The broker the profile option opt names in the loaded configuration.
Resolves(opt) == resolve_uri(opt, configFile).ok
NamedBroker(opt) == BrokerOf(resolve_uri(opt, configFile).uri)
\* The messages the source queue held when the command started.
SourceContent0 == queues0[NamedBroker(SourceOption(args))][SourceQueue(args)]

\* C1 (as claimed): when read with limit L on a queue of M messages ends
\* successfully, it has acked min(L, M) messages and has written as many
\* payloads to the sink.
C1_AckedIsMinLimitDepth ==
    (ReturnedOk /\ args.command = "read" /\ args.limit # None) =>
        LET L == unwrap(args.limit)
            M == Len(SourceContent0)
            expected == IF L.hi > 0 THEN M ELSE Min(L.lo, M)
        IN  /\ Cardinality(AckedOk) = expected
            /\ Cardinality(WrittenOk) = Cardinality(AckedOk)

\* C2 (as claimed): when shovel returns successfully the source queue is
\* empty and the destination queue, on the broker the destination option
\* names, holds every message of the source queue at least as often as the
\* source queue held it.
C2_ShovelMovesAll ==
    (ReturnedOk /\ args.command = "shovel"
        /\ Resolves(args.destination_connection)) =>
        /\ queues[NamedBroker(args.source_connection)][args.source_queue_name]
               = <<>>
        /\ \A m \in Msgs :
             Count(queues[NamedBroker(args.destination_connection)]
                         [args.destination_queue_name], m)
                 >= Count(SourceContent0, m)

\* What the source broker holds of its queue: ready or unacknowledged.
HeldBySource ==
    queues[NamedBroker(args.source_connection)][args.source_queue_name]
        \o [i \in DOMAIN unacked["source_channel"] |->
               unacked["source_channel"][i].msg]

\* C3 (as claimed): in every state of a shovel run, aborted or not, every
\* message of the source queue is still held by the source broker or is on
\* the destination queue of the broker the destination option names.
C3_ShovelLosesNothing ==
    (args.command = "shovel" /\ Resolves(args.source_connection)
        /\ Resolves(args.destination_connection)) =>
        \A m \in Msgs :
            Count(HeldBySource, m)
              + Count(queues[NamedBroker(args.destination_connection)]
                            [args.destination_queue_name], m)
                >= Count(SourceContent0, m)

\* C4 (as claimed): whenever a command returns, with Ok or with an error,
\* every delivery it received has been acked or rejected exactly once on its
\* channel.
C4_DisposedAtEveryReturn ==
    Returned =>
        \A i \in Deliveries :
            Cardinality({j \in Disposals(i) : log[j].ok}) = 1

\* The disposal each command owes a delivery: read acks, peek rejects with
\* requeue, shovel acks after a successful publish of the delivery.
OwedDisposal(i, j) ==
    CASE args.command = "read" -> log[j].op = "basic_ack"
      [] args.command = "peek" -> log[j].op = "basic_reject" /\ log[j].flag
      [] args.command = "shovel" ->
            /\ log[j].op = "basic_ack"
            /\ \E k \in Issued("basic_publish") :
                 i < k /\ k < j /\ log[k].ok /\ log[k].tag = log[i].tag

\* C4 (amended): a command that returns successfully has disposed every
\* delivery exactly once on its channel, leaving nothing for the broker to
\* requeue; no delivery is ever acked or rejected twice, nothing is acked or
\* rejected that was not delivered, and a command that returns an error
\* leaves at most the delivery it was holding undisposed.
C4_DisposedOnceAtOkReturn ==
    /\ \A i \in Deliveries : Cardinality(Disposals(i)) <= 1
    /\ \A j \in Issued("basic_ack") \cup Issued("basic_reject") :
         \E i \in Deliveries : i < j /\ j \in Disposals(i)
    /\ ReturnedOk =>
         /\ \A i \in Deliveries :
              \E j \in Disposals(i) : log[j].ok /\ i < j /\ OwedDisposal(i, j)
         /\ \A ch \in Chans : result.left[ch] = <<>>
    /\ (pc = "exit" /\ result.state = "error") =>
         \A i \in Deliveries :
              Disposals(i) = {} => \A k \in Deliveries : k <= i

\* A command has returned Ok after disposing of two deliveries.
C4_Witness ==
    /\ ReturnedOk
    /\ Cardinality(Deliveries) = 2
    /\ \A i \in Deliveries : \E j \in Disposals(i) : log[j].ok

\* C5: in shovel, every basic_ack issued on the source channel comes after
\* a successful basic_publish, on the destination channel and to the
\* destination queue name, of the payload and properties of the delivery
\* being acked.
C5_PublishBeforeAck ==
    \A j \in Issued("basic_ack") :
        log[j].on = "source_channel" =>
            \E i \in Deliveries, k \in Issued("basic_publish") :
                /\ i < k /\ k < j
                /\ log[i].on = "source_channel" /\ log[i].tag = log[j].tag
                /\ log[k].on = "destination_channel" /\ log[k].ok
                /\ log[k].queue = args.destination_queue_name
                /\ log[k].msg = log[i].msg

\* Shovel has acked a delivery whose properties are not the default ones.
C5_Witness ==
    \E j \in Issued("basic_ack") :
        log[j].on = "source_channel" /\ log[j].ok /\ log[j].msg.properties = "p2"

\* C6: in read and shovel, a basic_get is issued only after every earlier
\* delivery of the channel was acked successfully, and the broker holds no
\* unacknowledged delivery of the channel when the loop is at its basic_get.
C6_AckBeforeNextGet ==
    args.command \in {"read", "shovel"} =>
        /\ \A j \in Issued("basic_get") : \A i \in Deliveries :
             i < j => \E k \in AckedOk :
                         /\ i < k /\ k < j
                         /\ log[k].on = log[i].on /\ log[k].tag = log[i].tag
        /\ pc \in {"read_basic_get", "shovel_basic_get"} =>
             \A ch \in Chans : unacked[ch] = <<>>

\* Shovel holds the second message it was delivered, the first one acked.
C6_Witness ==
    /\ args.command = "shovel"
    /\ \E i, j \in Deliveries : i < j /\ pc = "shovel_basic_publish"

\* The bodies of the log entries of s, in order.
Bodies(s) == [i \in DOMAIN s |-> s[i].msg]
DeliveredSeq ==
    Bodies(SelectSeq(log, LAMBDA e : e.op = "basic_get" /\ e.ok /\ e.tag > 0))
WrittenSeq == Bodies(SelectSeq(log, LAMBDA e : e.op = "write" /\ e.ok))
PublishedSeq == Bodies(SelectSeq(log, LAMBDA e : e.op = "basic_publish" /\ e.ok))
\* s is d, or d without its last element.
Follows(s, d) ==
    /\ Len(d) - 1 <= Len(s) /\ Len(s) <= Len(d)
    /\ s = SubSeq(d, 1, Len(s))

\* Each payload followed by a newline, as read writes them.
RECURSIVE Lines(_)
Lines(s) == IF s = <<>> THEN <<>> ELSE <<Head(s).data, "\n">> \o Lines(Tail(s))

\* The broker the connection `conn` was opened to.
ConnectedBroker(conn) ==
    BrokerOf(log[CHOOSE i \in Issued("connect") :
                    log[i].on = conn /\ log[i].ok].uri)

\* C7: read writes and shovel republishes in the order of delivery: what
\* was written (published) is at all times the sequence delivered, less at
\* most the message in hand, and is that whole sequence when the command
\* returns Ok; then standard output holds the payloads in that order, and a
\* destination queue other than the source queue holds the messages in it.
C7_OrderKept ==
    /\ args.command = "read" =>
         /\ Follows(WrittenSeq, DeliveredSeq)
         /\ ReturnedOk => WrittenSeq = DeliveredSeq
         /\ (ReturnedOk /\ args.output = None) => stdout = Lines(DeliveredSeq)
    /\ args.command = "shovel" =>
         /\ Follows(PublishedSeq, DeliveredSeq)
         /\ ReturnedOk =>
              /\ PublishedSeq = DeliveredSeq
              /\ DeliveredSeq = SourceContent0
              /\ queues[ConnectedBroker("destination")]
                       [args.destination_queue_name] = SourceContent0

\* Shovel returned Ok having moved two different messages.
C7_Witness ==
    /\ ReturnedOk /\ args.command = "shovel"
    /\ Len(PublishedSeq) = 2 /\ PublishedSeq[1] # PublishedSeq[2]

\* C8: peek issues one basic_get and never a basic_ack; a peek that returns
\* Ok has rejected the delivery it got with requeue = true; and however peek
\* ends, every queue is as deep as it was, holding the same messages.
C8_PeekLeavesQueue ==
    args.command = "peek" =>
        /\ Cardinality(Issued("basic_get")) <= 1
        /\ Issued("basic_ack") = {}
        /\ ReturnedOk =>
             /\ Cardinality(Issued("basic_get")) = 1
             /\ \A i \in Deliveries : \E j \in Issued("basic_reject") :
                  /\ i < j /\ log[j].ok /\ log[j].flag
                  /\ log[j].on = log[i].on /\ log[j].tag = log[i].tag
        /\ pc = "exit" =>
             \A b \in Brokers, q \in QueueNames :
                 /\ Len(queues[b][q]) = Len(queues0[b][q])
                 /\ \A m \in Msgs : Count(queues[b][q], m) = Count(queues0[b][q], m)

\* Peek returned Ok after rejecting the head of a queue of two messages.
C8_Witness ==
    /\ ReturnedOk /\ args.command = "peek"
    /\ Len(SourceContent0) = 2
    /\ \E j \in Issued("basic_reject") : log[j].ok

\* The profile names given on the command line.
GivenNames ==
    IF args.command = "shovel"
    THEN args.source_connection \cup args.destination_connection
    ELSE args.connection
\* The option each connection of the command stands for.
OptionOf(conn) ==
    CASE conn = "connection" -> args.connection
      [] conn = "source" -> args.source_connection
      [] conn = "destination" -> args.destination_connection

\* The channel opened on each connection.
ChanOf(conn) ==
    CASE conn = "connection" -> "channel"
      [] conn = "source" -> "source_channel"
      [] conn = "destination" -> "destination_channel"

\* C9 (as claimed): when the profile name given for a connection is not in
\* the loaded map, no connection is attempted for it (not to the default URI
\* either), nothing is issued on its channel, and the command fails, with an
\* error carrying that name unless a broker operation failed first; the
\* default URI is connected to only for an option that was not given.
C9_UnknownProfileIsFatal ==
    LET f == ensure_file_exists(configFile)
        missing == {n \in GivenNames : n \notin DOMAIN f.profiles}
    IN  /\ \A conn \in Conns :
             (f.valid /\ OptionOf(conn) # None /\ OptionOf(conn) \subseteq missing) =>
                 /\ \A i \in DOMAIN log : log[i].on \notin {conn, ChanOf(conn)}
                 /\ Returned =>
                      /\ result.state = "error"
                      /\ (\A i \in DOMAIN log : log[i].ok) =>
                            /\ result.err.kind = "UnknownProfile"
                            /\ result.err.name \in missing
        /\ \A i \in Issued("connect") :
             log[i].uri = DefaultUri => OptionOf(log[i].on) = None

\* C10 (as claimed): for every pair of profile options the configuration
\* resolves, shovel connects its source to the broker of the source option
\* and its destination to the broker of the destination option, which is
\* where the destination channel publishes.
C10_DestinationOptionUsed ==
    (args.command = "shovel" /\ Resolves(args.source_connection)
        /\ Resolves(args.destination_connection)) =>
        \A i \in Issued("connect") :
            log[i].uri = resolve_uri(OptionOf(log[i].on), configFile).uri

\* The read step at hand resolves a Directory target: the -o path is a
\* directory or ends in a separator.
DirectoryTarget ==
    /\ args.command = "read" /\ args.output # None
    /\ (fs.kind = "dir" \/ unwrap(args.output).slash)

\* C11 (as claimed): a read step that resolves a Directory target for the
\* ordinal i creates <dir>/message_<i> when there is no such file, and when
\* there is one it fails with an error and leaves the file as it was.
C11_ExistingFileNotOverwritten ==
    [][(pc = "read_output" /\ DirectoryTarget /\ log' # log) =>
          LET n == MessageFileName(read_count) IN
          IF n \in DOMAIN fs.entries
          THEN /\ fs'.entries[n] = fs.entries[n]
               /\ pc' = "exit" /\ result'.state = "error"
          ELSE log'[Len(log')].ok => n \in DOMAIN fs'.entries]_vars

\* The read step at hand resolves a SingleFile target: the -o path is a
\* regular file, or does not exist and does not end in a separator.
SingleFileTarget ==
    /\ args.command = "read" /\ args.output # None
    /\ fs.kind # "dir" /\ ~unwrap(args.output).slash

\* C12 (as claimed): on a SingleFile target the sink of every ordinal can
\* be written, the file being truncated for the first ordinal and kept (to
\* be appended to) for the later ones; and when read returns Ok the file
\* holds the payloads consumed, in order, each followed by a newline, all of
\* them acked.
C12_SingleFileTruncateThenAppend ==
    SingleFileTarget =>
        /\ pc = "read_output" =>
             LET o == open_output_file(unwrap(args.output), read_count, fs) IN
             /\ o.ok /\ o.file.writable
             /\ o.fs.content = IF read_count = U32(0) THEN <<>> ELSE fs.content
        /\ (ReturnedOk /\ Len(DeliveredSeq) >= 1) =>
             /\ fs.content = Lines(DeliveredSeq)
             /\ Cardinality(AckedOk) = Len(DeliveredSeq)

\* C13 (as claimed): shovel drains its source and ends: every completed
\* iteration leaves the source queue one message shorter, so that shovel is
\* never delivered more messages than the source queue held when it started
\* and its loop ends at the basic_get that follows the last of them.
C13_ShovelDrainsAndEnds ==
    (args.command = "shovel" /\ Resolves(args.source_connection)) =>
        /\ Cardinality(Deliveries) <= Len(SourceContent0)
        /\ pc = "shovel_basic_get" =>
             Len(queues[NamedBroker(args.source_connection)]
                       [args.source_queue_name])
                 = Len(SourceContent0) - Cardinality(AckedOk)

\* The successful sink writes of the run, in order.
Writes == SelectSeq(log, LAMBDA e : e.op = "write" /\ e.ok)

\* C14: when read writes into a Directory target, its i-th successful write
\* (counting from 0) is of the i-th message delivered, goes to the file
\* message_<i> of the directory, and that file holds exactly the payload
\* followed by one newline; after a successful read of k messages these are
\* the files message_0 .. message_(k-1).
C14_DirectoryFileNames ==
    DirectoryTarget =>
        /\ \A i \in DOMAIN Writes :
             LET name == "message_" \o ToString(i - 1) IN
             /\ Writes[i].on = "entry"
             /\ Writes[i].tag = U32(i - 1)
             /\ Writes[i].queue = name
             /\ Writes[i].msg = DeliveredSeq[i]
             /\ name \in DOMAIN fs.entries
             /\ fs.entries[name] = <<DeliveredSeq[i].data, "\n">>
        /\ ReturnedOk => Len(Writes) = Len(DeliveredSeq)

\* Read returned Ok having written two different payloads into a directory.
C14_Witness ==
    /\ ReturnedOk /\ DirectoryTarget
    /\ Len(Writes) = 2 /\ Writes[1].msg.data # Writes[2].msg.data

\* C15: in read, every basic_ack follows a successful write (payload,
\* newline, flush) of the delivery it acks, and standard output then holds
\* every payload delivered; a failed sink resolution, write or flush is the
\* last operation of the run: the command ends with an error, the message
\* in hand is not acked and is back on the queue, and the messages acked
\* before it stay off the queue.
C15_AckOnlyAfterWrite ==
    args.command = "read" =>
        /\ \A j \in Issued("basic_ack") :
             \E i \in Deliveries, w \in Issued("write") :
                 /\ i < w /\ w < j /\ log[w].ok
                 /\ log[i].tag = log[j].tag /\ log[w].msg = log[i].msg
        /\ (pc = "read_basic_ack" /\ args.output = None) =>
             stdout = Lines(DeliveredSeq)
        /\ \A w \in Issued("write") :
             ~log[w].ok =>
                 /\ w = Len(log)
                 /\ pc = "exit" /\ result.state = "error"
                 /\ Cardinality(AckedOk) = Cardinality(Deliveries) - 1
                 /\ Len(result.left["channel"]) = 1
                 /\ Len(queues[NamedBroker(args.connection)][args.queue_name])
                        = Len(SourceContent0) - Cardinality(AckedOk)

\* The write of the second message failed after the first one was acked.
C15_Witness ==
    /\ args.command = "read"
    /\ Cardinality(AckedOk) = 1
    /\ \E w \in Issued("write") : ~log[w].ok

\* C16: in shovel, a failed basic_publish is the last operation of the run:
\* the delivery it was publishing is never acked, no further basic_get is
\* issued, the command ends with an error, and the message is unacked at
\* the return and back on the source queue for redelivery.
C16_FailedPublishEndsRun ==
    args.command = "shovel" =>
        \A p \in Issued("basic_publish") :
            ~log[p].ok =>
                /\ p = Len(log)
                /\ \A j \in Issued("basic_ack") : log[j].tag # log[p].tag
                /\ \A g \in Issued("basic_get") : g < p
                /\ pc = "exit" /\ result.state = "error"
                /\ Len(result.left["source_channel"]) = 1
                /\ result.left["source_channel"][1].delivery_tag = log[p].tag
                /\ result.left["source_channel"][1].msg = log[p].msg
                /\ \E k \in DOMAIN queues[NamedBroker(args.source_connection)]
                                         [args.source_queue_name] :
                       queues[NamedBroker(args.source_connection)]
                             [args.source_queue_name][k]
                           = result.left["source_channel"][1].msg

\* The publish of the second message failed after the first one was moved.
C16_Witness ==
    /\ args.command = "shovel"
    /\ Cardinality(AckedOk) = 1
    /\ \E p \in Issued("basic_publish") : ~log[p].ok

\* C17 (as claimed): read with limit L takes delivery of at most L messages,
\* and the messages behind the first L of the queue stay on the queue, in
\* order, never delivered.
C17_LimitBoundsDeliveries ==
    (args.command = "read" /\ args.limit # None /\ Resolves(args.connection)
        /\ unwrap(args.limit).hi = 0) =>
        LET L == unwrap(args.limit).lo
            M == Len(SourceContent0)
            q == queues[NamedBroker(args.connection)][args.queue_name]
        IN  /\ Cardinality(Deliveries) <= L
            /\ L < M =>
                 \E k \in 1..(Len(q) + 1) :
                     /\ k + (M - L) - 1 <= Len(q)
                     /\ SubSeq(q, k, k + (M - L) - 1)
                            = SubSeq(SourceContent0, L + 1, M)

\* C18 (as claimed): read without a limit never returns successfully while
\* messages remain on the queue, however many messages it has read.
C18_NoLimitStopsOnlyOnEmpty ==
    (args.command = "read" /\ args.limit = None /\ ReturnedOk) =>
        queues[NamedBroker(args.connection)][args.queue_name] = <<>>

\* C19 (as claimed): within one run the configuration file is read and
\* parsed at most once, and no step changes it once it exists.
C19_ConfigLoadedOnce ==
    [][/\ configLoads' <= 1
       /\ configFile.exists => configFile' = configFile]_vars

\* The latest delivery on the channel of log entry j before j.
LastDeliveryBefore(j) ==
    LET prior == {i \in Deliveries : i < j /\ log[i].on = log[j].on}
    IN  CHOOSE i \in prior : \A k \in prior : k <= i

\* C20: every channel holds at most one unacknowledged delivery; every
\* basic_ack and basic_reject carries the tag of the latest delivery on its
\* own channel, an ack is never multiple, and a disposal that succeeds
\* leaves the channel with nothing unacknowledged; the destination channel
\* of shovel sees no basic_get, basic_ack or basic_reject.
C20_OneDeliveryPerChannel ==
    /\ \A ch \in Chans : Len(unacked[ch]) <= 1
    /\ \A j \in Issued("basic_ack") \cup Issued("basic_reject") :
         /\ \E i \in Deliveries : i < j /\ log[i].on = log[j].on
         /\ log[j].tag = log[LastDeliveryBefore(j)].tag
         /\ log[j].msg = log[LastDeliveryBefore(j)].msg
         /\ log[j].op = "basic_ack" => ~log[j].flag
         /\ (log[j].ok /\ j = Len(log) /\ pc # "exit") =>
                unacked[log[j].on] = <<>>
    /\ \A i \in DOMAIN log :
         log[i].on = "destination_channel" =>
             log[i].op \notin {"basic_get", "basic_ack", "basic_reject"}

\* The second delivery of a channel was acked with its own tag.
C20_Witness ==
    \E j \in AckedOk :
        /\ log[j].tag = 2
        /\ Cardinality({i \in Deliveries : i < j /\ log[i].on = log[j].on}) = 2

====
